---- MODULE Spec2Model ----
(***************************************************************************)
(* A model of apple-health-export-parser-rs (src/src/main.rs).            *)
(*                                                                         *)
(* Four specifications share the module:                                   *)
(*   SpecDate  the pure predicate is_in_last_12_months applied to a date   *)
(*             string (a UTF-8 byte sequence) at a clock reading;          *)
(*   SpecUnit  the closure of parse_records that scans one record unit,    *)
(*             one reader event / one attribute at a time;                 *)
(*   SpecPar   parse_records: the split, the parallel map over the chunks  *)
(*             and the ordered collect;                                    *)
(*   Spec      runs of main: read_export_xml with the content cache,       *)
(*             parse_records, the two output files.                        *)
(***************************************************************************)
EXTENDS Integers, Sequences, FiniteSets, TLC

VARIABLES
    date_str,      \* SpecDate: the argument of is_in_last_12_months
    clock,         \* SpecDate: the day Utc::now() falls on (days since 1970-01-01)
    recent,        \* SpecDate: "none" before the call, then "true" / "false" / "panic"
    u_pc,          \* SpecUnit: where the scan of the unit stands
    u_types,       \* SpecUnit: allowed_types
    u_st,          \* SpecUnit: the closure's locals (should_parse, the fields, metadata)
    u_attrs,       \* SpecUnit: the attributes of the Record tag handed out so far
    u_seen,        \* SpecUnit: what the reader has produced (history of the unit)
    u_result,      \* SpecUnit: the closure's return value, <<>> = None, <<r>> = Some(r)
    p_xml,         \* SpecPar: the document text given to parse_records
    p_types,       \* SpecPar: allowed_types
    p_res,         \* SpecPar: per chunk index, <<>> until a worker has mapped it
    p_order,       \* SpecPar: the chunk indices in the order the workers finished them
    p_at,          \* SpecPar: per chunk index, the clock reading its worker saw
    p_out,         \* SpecPar: <<>> until collect() returns, then <<the Vec>>
    p_pc,          \* SpecPar: "map", "done" or "panicked"
    archive,       \* Spec: the content of ./export.zip
    cache_dir,     \* Spec: whether the cache directory exists
    cache,         \* Spec: per hash, <<>> (no file) or <<text>> (the file's content)
    run,           \* Spec: per run of main, its position and locals
    files          \* Spec: output.json and output.csv

(***************************************************************************)
(* Bounds                                                                  *)
(***************************************************************************)
\* a Record tag of SpecUnit carries at most MaxAttrs attributes
MaxAttrs == 3
\* at most MaxEvents events follow the Record tag of a unit of SpecUnit
MaxEvents == 2
\* a document of SpecPar holds at most MaxUnits record markers
MaxUnits == 2
\* Spec follows NumRuns runs of main
NumRuns == 2
\* the years 2020 .. 2020 + YearSpan appear in the generated date strings
YearSpan == 6
\* the clock readings tried: ClockStart + k * ClockStep, k \in 0 .. ClockSamples
ClockSamples == 24
ClockStep == 29

(***************************************************************************)
(* Calendar: chrono's proleptic Gregorian calendar, as day numbers.        *)
(***************************************************************************)
\* day number (days since 1970-01-01) of the civil date y-m-d
DaysFromCivil(y, m, d) ==
    LET yy  == IF m <= 2 THEN y - 1 ELSE y
        era == yy \div 400
        yoe == yy - era * 400
        mp  == IF m > 2 THEN m - 3 ELSE m + 9
        doy == (153 * mp + 2) \div 5 + d - 1
        doe == yoe * 365 + yoe \div 4 - yoe \div 100 + doy
    IN  era * 146097 + doe - 719468

\* the steps of the conversion of a day number to a civil date
YearMonthDay(y, m, d) == << IF m <= 2 THEN y + 1 ELSE y, m, d >>

CivilFromMp(y, doy, mp) ==
    YearMonthDay(y, IF mp < 10 THEN mp + 3 ELSE mp - 9, doy - (153 * mp + 2) \div 5 + 1)

CivilFromDoy(y, doy) == CivilFromMp(y, doy, (5 * doy + 2) \div 153)

CivilFromYoe(era, doe, yoe) ==
    CivilFromDoy(yoe + era * 400, doe - (365 * yoe + yoe \div 4 - yoe \div 100))

CivilFromEra(era, doe) ==
    CivilFromYoe(era, doe, (doe - doe \div 1460 + doe \div 36524 - doe \div 146096) \div 365)

\* <<year, month, day>> of a day number
CivilFromDays(z) == CivilFromEra((z + 719468) \div 146097, (z + 719468) % 146097)

YearMonthOf(c) == [year |-> c[1], month |-> c[2]]

\* a plausible slip: a year taken to be 350 days
CutoffShort(today) == YearMonthOf(CivilFromDays(today - 350))

\* (now - Duration::days(365)).year() and .month(), now falling on day `today`
Cutoff(today) == YearMonthOf(CivilFromDays(today - 365))

(***************************************************************************)
(* Strings are sequences of UTF-8 bytes.  ASCII bytes are written as the   *)
(* character; "C3" "A9" are the lead and continuation byte of a two-byte   *)
(* character.                                                              *)
(***************************************************************************)
Digits == <<"0", "1", "2", "3", "4", "5", "6", "7", "8", "9">>

IsDigit(b) == \E i \in 1..10 : Digits[i] = b

DigitVal(b) == (CHOOSE i \in 1..10 : Digits[i] = b) - 1

IsContinuation(b) == b = "A9"

\* str::is_char_boundary(i), i a 0-based byte offset
IsCharBoundary(s, i) ==
    \/ i = 0
    \/ i = Len(s)
    \/ i < Len(s) /\ ~IsContinuation(s[i + 1])

\* &s[a..b] (0-based, b exclusive); the caller has checked the boundaries
Slice(s, a, b) == SubSeq(s, a + 1, b)

RECURSIVE DigitsValue(_)
\* the value of a non-empty all-digit byte string
DigitsValue(s) ==
    IF s = <<>> THEN 0
    ELSE 10 * DigitsValue(SubSeq(s, 1, Len(s) - 1)) + DigitVal(s[Len(s)])

AllDigits(s) == s # <<>> /\ \A i \in 1..Len(s) : IsDigit(s[i])

\* str::parse::<i32>(): an optional sign, then at least one digit
\* (no overflow is possible on the four bytes it is given)
ParseI32(s) ==
    IF s # <<>> /\ s[1] \in {"+", "-"}
    THEN IF AllDigits(Tail(s))
         THEN [ok |-> TRUE,
               val |-> IF s[1] = "-" THEN 0 - DigitsValue(Tail(s))
                                     ELSE DigitsValue(Tail(s))]
         ELSE [ok |-> FALSE, val |-> 0]
    ELSE IF AllDigits(s) THEN [ok |-> TRUE, val |-> DigitsValue(s)]
         ELSE [ok |-> FALSE, val |-> 0]

\* str::parse::<u32>(): an optional '+', then at least one digit
\* (the digit strings of this model are short, none overflows)
ParseU32(s) ==
    LET ds == IF s # <<>> /\ s[1] = "+" THEN Tail(s) ELSE s
    IN  IF AllDigits(ds) THEN [ok |-> TRUE, val |-> DigitsValue(ds)]
        ELSE [ok |-> FALSE, val |-> 0]

\* Result::unwrap_or(0)
UnwrapOr0(r) == IF r.ok THEN r.val ELSE 0

(***************************************************************************)
(* is_in_last_12_months                                                    *)
(***************************************************************************)
\* the comparison of the parsed year and month with the cutoff c
AtOrAfter(year, month, c) ==
    IF year > c.year THEN "true"
    ELSE IF year = c.year
         THEN IF month >= c.month THEN "true" ELSE "false"
         ELSE "false"

\* a plausible slip: the cutoff month itself is excluded
is_in_last_12_months_strict(s, today) ==
    IF Len(s) < 7 THEN "false"
    ELSE IF ~IsCharBoundary(s, 4) THEN "panic"
    ELSE IF ~IsCharBoundary(s, 5) \/ ~IsCharBoundary(s, 7) THEN "panic"
    ELSE IF AtOrAfter(UnwrapOr0(ParseI32(Slice(s, 0, 4))),
                      UnwrapOr0(ParseU32(Slice(s, 5, 7))) - 1,
                      Cutoff(today)) = "true"
         THEN "true" ELSE "false"

\* "true" / "false", or "panic" when a slice does not fall on a character boundary
is_in_last_12_months(s, today) ==
    IF Len(s) < 7 THEN "false"
    ELSE IF ~IsCharBoundary(s, 4) THEN "panic"
    ELSE IF ~IsCharBoundary(s, 5) \/ ~IsCharBoundary(s, 7) THEN "panic"
    ELSE AtOrAfter(UnwrapOr0(ParseI32(Slice(s, 0, 4))),
                   UnwrapOr0(ParseU32(Slice(s, 5, 7))),
                   Cutoff(today))

(***************************************************************************)
(* The closure of parse_records that scans one record unit.                *)
(*                                                                         *)
(* A unit is what quick_xml's reader produces from "<Record " + chunk:     *)
(*   tag    "ok" when the Record tag is complete (Start or Empty event),   *)
(*          "unterminated" when the input ends or is malformed before its  *)
(*          closing '>' (read_event_into returns Err);                     *)
(*   attrs  the tag's attributes in written order, as e.attributes()       *)
(*          .flatten() yields them: a repeated key is an Err of the        *)
(*          iterator and is dropped, so the keys are distinct;             *)
(*   events the events after the tag, each [kind, key, value] with kind    *)
(*          "meta" (Start/Empty MetadataEntry with key and value           *)
(*          attributes), "end" (End of Record), "other" (text, any other   *)
(*          element) or "error" (Err); end of input (Eof) follows the      *)
(*          last one.                                                      *)
(* Attribute values are byte strings; std::str::from_utf8 cannot fail on   *)
(* them because the document is a &str.  Option values are sequences:      *)
(* <<>> is None, <<v>> is Some(v).  The metadata HashMap is a set of       *)
(* <<key, value>> pairs with one pair per key.                             *)
(***************************************************************************)
\* a string whose bytes the program never looks into, held as one token
Str(name) == <<name>>

\* metadata_keys_to_include
metadata_keys_to_include == {"HKActivityType", "HKPhysicalEffortEstimationType"}

\* WorkoutActivityType::from_u32(code).to_string()
ActivityName(code) ==
    CASE code = 13 -> Str("Cycling")
      [] code = 37 -> Str("Running")
      [] code = 52 -> Str("Walking")
      [] OTHER     -> Str("Other")

\* HashMap::insert
MapInsert(m, k, v) == {p \in m : p[1] # k} \cup {<<k, v>>}

\* the locals of the closure before the first event
InitScan(allowed) ==
    [should_parse |-> allowed = {},
     record_type  |-> <<>>,
     value        |-> <<>>,
     unit         |-> <<>>,
     start_date   |-> <<>>,
     end_date     |-> <<>>,
     metadata     |-> {},
     brk          |-> FALSE,
     panicked     |-> FALSE]

\* the type attribute: sp is allow_all || allowed_types.contains(v_str)
TypeStep(st, a, sp) ==
    [st EXCEPT !.record_type = <<a.val>>, !.should_parse = sp, !.brk = ~sp]

\* the startDate attribute: r is what is_in_last_12_months returned
DateStep(st, a, r) ==
    IF r = "panic" THEN [st EXCEPT !.panicked = TRUE]
    ELSE IF r = "false" THEN [st EXCEPT !.should_parse = FALSE]
    ELSE [st EXCEPT !.start_date = <<a.val>>]

\* one turn of the loop over the Record tag's attributes
AttrStep(st, a, allowed, today) ==
    IF a.key = "type" THEN TypeStep(st, a, (allowed = {}) \/ (a.val \in allowed))
    ELSE IF ~st.should_parse THEN st
    ELSE IF a.key = "startDate"
    THEN DateStep(st, a, is_in_last_12_months(a.val, today))
    ELSE IF a.key = "value"   THEN [st EXCEPT !.value = <<a.val>>]
    ELSE IF a.key = "unit"    THEN [st EXCEPT !.unit = <<a.val>>]
    ELSE IF a.key = "endDate" THEN [st EXCEPT !.end_date = <<a.val>>]
    ELSE st

\* a plausible slip: every key is kept
MetaInsertAll(st, key, value) ==
    [st EXCEPT !.metadata =
        MapInsert(st.metadata, key,
                  IF key = "HKActivityType" /\ ParseU32(value).ok
                  THEN ActivityName(ParseU32(value).val) ELSE value)]

\* a plausible slip: an activity value that is no number drops the entry
MetaInsertStrict(st, key, value) ==
    IF key \in metadata_keys_to_include
       /\ (key = "HKActivityType" => ParseU32(value).ok)
    THEN [st EXCEPT !.metadata =
             MapInsert(st.metadata, key,
                       IF key = "HKActivityType"
                       THEN ActivityName(ParseU32(value).val) ELSE value)]
    ELSE st

\* the body run for a MetadataEntry whose key and value attributes were found
MetaInsert(st, key, value) ==
    IF key \in metadata_keys_to_include
    THEN [st EXCEPT !.metadata =
             MapInsert(st.metadata, key,
                       IF key = "HKActivityType" /\ ParseU32(value).ok
                       THEN ActivityName(ParseU32(value).val) ELSE value)]
    ELSE st

\* a plausible slip: the guard on should_parse is dropped
MetaStepUnguarded(st, key_opt, value_opt) ==
    IF key_opt # <<>> /\ value_opt # <<>>
    THEN MetaInsert(st, key_opt[1], value_opt[1])
    ELSE st

\* a Start or Empty event named MetadataEntry; key_opt and value_opt are its
\* key and value attributes, <<>> when it has none
MetaStep(st, key_opt, value_opt) ==
    IF ~st.should_parse THEN st
    ELSE IF key_opt # <<>> /\ value_opt # <<>>
    THEN MetaInsert(st, key_opt[1], value_opt[1])
    ELSE st

\* the closure's return value once the loop has ended
UnitResult(st) ==
    IF st.should_parse
    THEN << [record_type |-> st.record_type, value |-> st.value,
             unit |-> st.unit, start_date |-> st.start_date,
             end_date |-> st.end_date, metadata |-> st.metadata] >>
    ELSE <<>>

RECURSIVE ScanAttrs(_, _, _, _)
\* the whole loop over the attributes of the Record tag
ScanAttrs(st, attrs, allowed, today) ==
    IF attrs = <<>> \/ st.brk \/ st.panicked THEN [st EXCEPT !.brk = FALSE]
    ELSE ScanAttrs(AttrStep(st, Head(attrs), allowed, today), Tail(attrs),
                   allowed, today)

RECURSIVE ScanEvents(_, _)
\* the loop over the events that follow the Record tag, to End, Eof or Err
ScanEvents(st, events) ==
    IF events = <<>> THEN st
    ELSE LET e == Head(events)
         IN  IF e.kind \in {"end", "error"} THEN st
             ELSE IF e.kind = "meta"
             THEN ScanEvents(MetaStep(st, e.key, e.value), Tail(events))
             ELSE ScanEvents(st, Tail(events))

\* the rest of the scan, s1 being the locals after the Record tag
AfterTag(s1, events) ==
    IF s1.panicked THEN [panic |-> TRUE, rec |-> <<>>]
    ELSE [panic |-> FALSE, rec |-> UnitResult(ScanEvents(s1, events))]

\* the closure applied to one unit: whether it panicked, and what it returned
ParseUnit(u, allowed, today) ==
    IF u.tag # "ok"
    THEN [panic |-> FALSE, rec |-> UnitResult(InitScan(allowed))]
    ELSE AfterTag(ScanAttrs(InitScan(allowed), u.attrs, allowed, today), u.events)

(***************************************************************************)
(* The variables of each specification, and their values while another     *)
(* specification runs.                                                     *)
(***************************************************************************)
dateVars == <<date_str, recent>>
unitVars == <<u_pc, u_types, u_st, u_attrs, u_seen, u_result>>
parVars  == <<p_xml, p_types, p_res, p_order, p_at, p_out, p_pc>>
runVars  == <<archive, cache_dir, cache, run, files>>
vars     == <<clock, dateVars, unitVars, parVars, runVars>>

DateIdle == date_str = <<>> /\ recent = "none"

\* what SpecUnit remembers of a unit besides the closure's locals:
\*   metas     the keys of the MetadataEntry events read (with key and value)
\*   events    how many events were read after the Record tag
\*   stop      why the loop ended
\*   closed    the Record tag was self-closing (Event::Empty)
\*   own       the keys of the MetadataEntry events read inside the Record element
\*   rejected  a type or a startDate has set should_parse to false
\*   activity  the value of the last HKActivityType entry read while should_parse
NothingSeen ==
    [metas |-> {}, events |-> 0, stop |-> "none", closed |-> FALSE,
     own |-> {}, rejected |-> FALSE, activity |-> <<>>]

UnitIdle ==
    /\ u_pc = "idle" /\ u_types = {} /\ u_st = InitScan({})
    /\ u_attrs = <<>> /\ u_seen = NothingSeen /\ u_result = <<>>

ParIdle ==
    /\ p_xml = <<>> /\ p_types = {} /\ p_res = <<>> /\ p_order = <<>>
    /\ p_at = <<>> /\ p_out = <<>> /\ p_pc = "idle"

RunIdle ==
    /\ archive = <<>> /\ cache_dir = FALSE /\ cache = <<>> /\ run = <<>>
    /\ files = <<>>

(***************************************************************************)
(* SpecDate: is_in_last_12_months on generated date strings.               *)
(***************************************************************************)
Years == 2020 .. (2020 + YearSpan)

MonthNums == 0 .. 13

Fmt2(n) == << Digits[(n \div 10) + 1], Digits[(n % 10) + 1] >>

Fmt4(n) == Fmt2(n \div 100) \o Fmt2(n % 100)

\* "YYYY-MM"
FmtYearMonth(y, m) == Fmt4(y) \o <<"-">> \o Fmt2(m)

ValidUtf8(s) ==
    \A i \in 1..Len(s) :
        /\ s[i] = "C3" => (i < Len(s) /\ s[i + 1] = "A9")
        /\ s[i] = "A9" => (i > 1 /\ s[i - 1] = "C3")

YearFields ==
    {Fmt4(y) : y \in Years} \cup
    { <<"2", "0", "x", "4">>, <<"+", "2", "0", "2">>, <<"-", "2", "0", "2">>,
      <<"C3", "A9", "2", "4">>, <<"2", "0", "2", "C3">> }

Separators == {"-", "x", "A9"}

MonthFields ==
    {Fmt2(m) : m \in MonthNums} \cup
    { <<"x", "1">>, <<"+", "5">>, <<"-", "5">>, <<"C3", "A9">>,
      <<"1", "C3">>, <<"A9", "1">> }

Suffixes == { <<>>, <<"T">>, <<"A9">> }

\* the date strings of the recency examples: "2024-01-15", "2020-01-01", "202"
ExampleRecent == FmtYearMonth(2024, 1) \o <<"-", "1", "5">>

ExampleStale == FmtYearMonth(2020, 1) \o <<"-", "0", "1">>

ExampleShort == <<"2", "0", "2">>

FullDates ==
    {d \in {y \o <<sep>> \o m \o t :
                y \in YearFields, sep \in Separators, m \in MonthFields,
                t \in Suffixes} : ValidUtf8(d)}

ShortDates ==
    {d \in {SubSeq(f, 1, n) : f \in FullDates, n \in 0..6} : ValidUtf8(d)}

DateStrs ==
    FullDates \cup ShortDates \cup {ExampleRecent, ExampleStale, ExampleShort}

\* the clock readings tried
ClockStart == DaysFromCivil(2024, 1, 1)

ExampleDay == DaysFromCivil(2024, 6, 1)

ClockDays == {ExampleDay} \cup {ClockStart + k * ClockStep : k \in 0..ClockSamples}

InitDate ==
    /\ date_str \in DateStrs
    /\ clock \in ClockDays
    /\ recent = "none"
    /\ UnitIdle /\ ParIdle /\ RunIdle

\* a call is_in_last_12_months(date_str) while Utc::now() falls on day clock
CallIsRecent ==
    /\ recent = "none"
    /\ recent' = is_in_last_12_months(date_str, clock)
    /\ UNCHANGED <<clock, date_str, unitVars, parVars, runVars>>

NextDate == CallIsRecent

SpecDate == InitDate /\ [][NextDate]_vars

\* the string as characters: a two-byte character is one element
RECURSIVE CharsOf(_)
CharsOf(s) ==
    IF s = <<>> THEN <<>>
    ELSE IF s[1] = "C3" THEN <<"C3A9">> \o CharsOf(SubSeq(s, 3, Len(s)))
    ELSE <<s[1]>> \o CharsOf(Tail(s))

\* C6: is_in_last_12_months returns false, without failing, for every date
\* string shorter than 7 characters or whose year field (characters 0..4) or
\* month field (characters 5..7) does not parse as an integer, whatever the
\* other field and the current time.
C6_BadDateIsNotRecent ==
    LET cs == CharsOf(date_str)
    IN  (/\ recent # "none"
         /\ \/ Len(cs) < 7
            \/ ~ParseI32(SubSeq(cs, 1, 4)).ok
            \/ ~ParseU32(SubSeq(cs, 6, 7)).ok)
        => recent = "false"

\* C7: for a well-formed date string with year Y and month M and every current
\* instant, is_in_last_12_months returns true exactly when Y > cutoffYear or
\* (Y = cutoffYear and M >= cutoffMonth), the cutoff being the year and month
\* of now minus 365 days; with now = 2024-06-01 a 2024-01 date is recent and a
\* 2020-01 date is not.
C7_RecentIffAtOrAfterCutoff ==
    recent # "none" =>
        /\ \A y \in Years, m \in MonthNums :
               (Len(date_str) >= 7 /\ SubSeq(date_str, 1, 7) = FmtYearMonth(y, m))
               => recent = IF \/ y > Cutoff(clock).year
                              \/ y = Cutoff(clock).year /\ m >= Cutoff(clock).month
                           THEN "true" ELSE "false"
        /\ (clock = ExampleDay /\ date_str = ExampleRecent) => recent = "true"
        /\ (clock = ExampleDay /\ date_str = ExampleStale) => recent = "false"

\* a date of exactly the cutoff month has been judged recent
C7_Witness ==
    /\ recent = "true"
    /\ Len(date_str) >= 7
    /\ SubSeq(date_str, 1, 7) = FmtYearMonth(Cutoff(clock).year, Cutoff(clock).month)

(***************************************************************************)
(* SpecUnit: the scan of one record unit, an attribute or an event at a    *)
(* time.  The reader's output is chosen as the scan goes; u_attrs and      *)
(* u_seen remember what it was.                                            *)
(***************************************************************************)
TypeA == Str("A")
TypeB == Str("B")
TypeC == Str("C")

\* a start date whose year slice does not end on a character boundary
DateSplitChar == <<"2", "0", "2", "C3", "A9", "0", "1">>

\* what each attribute of a Record tag may hold
AttrValues(key) ==
    CASE key = "type"      -> {TypeA, TypeB}
      [] key = "startDate" -> {ExampleRecent, ExampleStale, ExampleShort, DateSplitChar}
      [] key = "endDate"   -> {ExampleRecent}
      [] key = "value"     -> {Str("72")}
      [] key = "unit"      -> {Str("count/min")}

AttrKeys == {"type", "startDate", "endDate", "value", "unit"}

TagAttrs == {[key |-> k, val |-> v] : k \in AttrKeys, v \in UNION {AttrValues(kk) : kk \in AttrKeys}}

UnitAttrs == {a \in TagAttrs : a.val \in AttrValues(a.key)}

\* the filters tried: allow-all, and the set {A, C}
UnitFilters == { {}, {TypeA, TypeC} }

MetaKeyOpts == { <<>>, <<"HKActivityType">>, <<"HKPhysicalEffortEstimationType">>,
                 <<"HKTimeZone">> }

MetaValueOpts ==
    { <<>>, << <<"1", "3">> >>, << <<"9", "9">> >>, << <<"-", "5">> >>,
      << Str("Europe/Copenhagen") >> }

KeysOf(attrs) == {attrs[i].key : i \in 1..Len(attrs)}

InitUnit ==
    /\ clock = ExampleDay
    /\ u_pc = "tag"
    /\ u_types \in UnitFilters
    /\ u_st = InitScan(u_types)
    /\ u_attrs = <<>>
    /\ u_seen = NothingSeen
    /\ u_result = <<>>
    /\ DateIdle /\ ParIdle /\ RunIdle

\* the loop has ended: the closure returns
Return(st, why) ==
    /\ u_pc' = "done"
    /\ u_st' = st
    /\ u_seen' = [u_seen EXCEPT !.stop = why]
    /\ u_result' = UnitResult(st)

\* the first read_event_into returns the Start event of the Record tag, or
\* its Empty event when the tag is self-closing
ReadRecordTag ==
    /\ u_pc = "tag"
    /\ u_pc' = "attrs"
    /\ \E empty \in BOOLEAN : u_seen' = [u_seen EXCEPT !.closed = empty]
    /\ UNCHANGED <<clock, u_types, u_st, u_attrs, u_result, dateVars, parVars, runVars>>

\* the first read_event_into returns Err: the tag is malformed or the input
\* ends inside it, and `while let Ok(..)` ends the loop at once
ReadTagError ==
    /\ u_pc = "tag"
    /\ Return(u_st, "unterminated")
    /\ UNCHANGED <<clock, u_types, u_attrs, dateVars, parVars, runVars>>

\* attribute a took the locals from st to st2 and set should_parse to false
Rejects(st, a, st2) ==
    \/ a.key = "type" /\ ~st2.should_parse
    \/ a.key = "startDate" /\ st.should_parse /\ ~st2.should_parse

\* the attribute iterator yields one more attribute
NextAttr ==
    /\ u_pc = "attrs"
    /\ Len(u_attrs) < MaxAttrs
    /\ \E a \in UnitAttrs :
          /\ a.key \notin KeysOf(u_attrs)
          /\ LET st == AttrStep(u_st, a, u_types, clock)
             IN  /\ u_st' = [st EXCEPT !.brk = FALSE]
                 /\ u_pc' = IF st.panicked THEN "panicked"
                            ELSE IF st.brk THEN "events" ELSE "attrs"
                 /\ u_seen' = [u_seen EXCEPT !.rejected = @ \/ Rejects(u_st, a, st)]
          /\ u_attrs' = Append(u_attrs, a)
    /\ UNCHANGED <<clock, u_types, u_result, dateVars, parVars, runVars>>

\* the attribute iterator is exhausted
EndAttrs ==
    /\ u_pc = "attrs"
    /\ u_pc' = "events"
    /\ UNCHANGED <<clock, u_types, u_st, u_attrs, u_seen, u_result, dateVars, parVars, runVars>>

\* read_event_into returns a Start or Empty event named MetadataEntry
ReadMeta ==
    /\ u_pc = "events"
    /\ u_seen.events < MaxEvents
    /\ \E k \in MetaKeyOpts, v \in MetaValueOpts :
          /\ u_st' = MetaStep(u_st, k, v)
          /\ u_seen' = [u_seen EXCEPT
                           !.events = @ + 1,
                           !.metas = IF k # <<>> /\ v # <<>> THEN @ \cup {k[1]} ELSE @,
                           !.own = IF k # <<>> /\ v # <<>> /\ ~u_seen.closed
                                   THEN @ \cup {k[1]} ELSE @,
                           !.activity = IF u_st.should_parse /\ v # <<>>
                                           /\ k = <<"HKActivityType">>
                                        THEN v ELSE @]
    /\ UNCHANGED <<clock, u_pc, u_types, u_attrs, u_result, dateVars, parVars, runVars>>

\* read_event_into returns text, a comment or a tag of another name
ReadOther ==
    /\ u_pc = "events"
    /\ u_seen.events < MaxEvents
    /\ u_seen' = [u_seen EXCEPT !.events = @ + 1]
    /\ UNCHANGED <<clock, u_pc, u_types, u_st, u_attrs, u_result, dateVars, parVars, runVars>>

\* read_event_into returns the End event of Record; a self-closing tag has none
ReadEnd ==
    /\ u_pc = "events"
    /\ ~u_seen.closed
    /\ Return(u_st, "end")
    /\ UNCHANGED <<clock, u_types, u_attrs, dateVars, parVars, runVars>>

\* read_event_into returns Eof
ReadEof ==
    /\ u_pc = "events"
    /\ Return(u_st, "eof")
    /\ UNCHANGED <<clock, u_types, u_attrs, dateVars, parVars, runVars>>

\* read_event_into returns Err after the Record tag
ReadError ==
    /\ u_pc = "events"
    /\ Return(u_st, "error")
    /\ UNCHANGED <<clock, u_types, u_attrs, dateVars, parVars, runVars>>

NextUnit ==
    \/ ReadRecordTag
    \/ ReadTagError
    \/ NextAttr
    \/ EndAttrs
    \/ ReadMeta
    \/ ReadOther
    \/ ReadEnd
    \/ ReadEof
    \/ ReadError

SpecUnit == InitUnit /\ [][NextUnit]_vars

\* the type attribute the Record tag has shown, <<>> when it has shown none
TagType ==
    IF "type" \in KeysOf(u_attrs)
    THEN << (CHOOSE a \in {u_attrs[i] : i \in 1..Len(u_attrs)} : a.key = "type").val >>
    ELSE <<>>

\* C8: a unit whose Record tag has no type attribute never produces a record,
\* for every filter including the empty one; every emitted record has a
\* present recordType.
C8_NoTypeNoRecord ==
    (u_pc = "done" /\ u_seen.stop # "unterminated")
    => /\ TagType = <<>> => u_result = <<>>
       /\ u_result # <<>> => u_result[1].record_type # <<>>

\* C9: a malformed or unterminated unit (the reader returns an error, or the
\* input ends before the Record tag is complete) produces no record, for every
\* filter including the empty one.
C9_MalformedNoRecord ==
    (u_pc = "done" /\ u_seen.stop \in {"unterminated", "error"}) => u_result = <<>>

\* C10: with a non-empty filter, a unit whose type is not in the filter never
\* has a MetadataEntry translated or inserted into its metadata map, and
\* produces no record, whatever else the unit contains.
C10_ExcludedTypeNoMetadata ==
    (u_types # {} /\ TagType # <<>> /\ TagType[1] \notin u_types)
    => /\ u_st.metadata = {}
       /\ u_result = <<>>
       /\ ~u_st.should_parse

\* an excluded unit that carried an allow-listed MetadataEntry was scanned to the end
C10_Witness ==
    /\ u_pc = "done"
    /\ u_types # {} /\ TagType # <<>> /\ TagType[1] \notin u_types
    /\ "HKActivityType" \in u_seen.metas

\* the keys of a metadata map
MapKeys(m) == {p[1] : p \in m}

\* C11: in every emitted HealthRecord every key of the metadata map is
\* HKActivityType or HKPhysicalEffortEstimationType; a MetadataEntry with
\* another key never appears in the output.
C11_MetadataKeysAllowListed ==
    /\ MapKeys(u_st.metadata) \subseteq {"HKActivityType", "HKPhysicalEffortEstimationType"}
    /\ u_result # <<>>
       => MapKeys(u_result[1].metadata)
             \subseteq {"HKActivityType", "HKPhysicalEffortEstimationType"}

\* a record was emitted for a unit that carried an entry of another key next
\* to an allow-listed one, and the allow-listed one is in its map
C11_Witness ==
    /\ u_pc = "done" /\ u_result # <<>>
    /\ "HKTimeZone" \in u_seen.metas
    /\ MapKeys(u_result[1].metadata) = {"HKPhysicalEffortEstimationType"}

\* the sequences that hold the elements of attrs in another or the same order
Reorderings(attrs) ==
    {q \in [1..Len(attrs) -> {attrs[i] : i \in 1..Len(attrs)}] :
        \A i, j \in 1..Len(attrs) : q[i] = q[j] => i = j}

\* C13: the result of parsing a unit (whether a record is produced, and its
\* type, value, unit, startDate and endDate) does not depend on the order of
\* the attributes in the Record tag: every permutation of the same attributes
\* yields the same result, for every filter.
C13_AttributeOrderIrrelevant ==
    (u_pc = "done" /\ u_seen.stop \in {"end", "eof"} /\ u_seen.events = 0)
    => \A q \in Reorderings(u_attrs) :
          ParseUnit([tag |-> "ok", attrs |-> q, events |-> <<>>], u_types, clock)
             = [panic |-> FALSE, rec |-> u_result]

\* C14: rejection of a unit is permanent: once a type outside the filter or
\* a startDate that fails the recency filter has rejected the unit, nothing
\* processed later in the unit makes it accepted again, and the unit yields no
\* record.
C14_RejectionIsPermanent ==
    u_seen.rejected
    => /\ ~u_st.should_parse
       /\ u_pc = "done" => u_result = <<>>

\* C15: a retained record's metadata map holds only entries that come from
\* MetadataEntry elements nested inside its own Record element: the scan stops
\* at the end of the record, a self-closing Record tag included, so entries of
\* elements that follow the record in the same segment are never attributed
\* to it.
C15_MetadataFromOwnElementOnly ==
    u_result # <<>> => MapKeys(u_result[1].metadata) \subseteq u_seen.own

\* what is to be stored for an HKActivityType entry of value v: the
\* translator's name of a numeric code, the value itself otherwise
ActivityStored(v) ==
    IF AllDigits(v) THEN ActivityName(DigitsValue(v)) ELSE v

\* C18: for an accepted unit and a MetadataEntry with key HKActivityType and
\* any value, the entry is stored with the translator's name when the value
\* is a numeric code, and with the value itself when it is not (negative,
\* non-numeric); it never makes the scan fail or the unit drop.
C18_ActivityValueAlwaysStored ==
    u_seen.activity # <<>>
    => /\ u_pc \in {"events", "done"}
       /\ u_st.should_parse
       /\ <<"HKActivityType", ActivityStored(u_seen.activity[1])>> \in u_st.metadata
       /\ u_pc = "done"
          => /\ u_result # <<>>
             /\ <<"HKActivityType", ActivityStored(u_seen.activity[1])>>
                   \in u_result[1].metadata

\* a record was emitted whose unit carried two HKActivityType entries, the
\* last with a negative value, stored as it is
C18_Witness ==
    /\ u_pc = "done" /\ u_result # <<>>
    /\ u_seen.events = 2 /\ u_seen.metas = {"HKActivityType"}
    /\ u_seen.activity = << <<"-", "5">> >>
    /\ u_result[1].metadata = { <<"HKActivityType", <<"-", "5">> >> }

(***************************************************************************)
(* parse_records: the split on "<Record ", the parallel map, the collect.  *)
(*                                                                         *)
(* A document text is a sequence of pieces: the marker "<Record ", the     *)
(* text of a unit after its marker (a body: what the reader makes of it),  *)
(* or other text (the prologue).                                           *)
(***************************************************************************)
Marker == [piece |-> "marker", tag |-> "", attrs |-> <<>>, events |-> <<>>]

Text == [piece |-> "text", tag |-> "", attrs |-> <<>>, events |-> <<>>]

Body(tag, attrs, events) ==
    [piece |-> "body", tag |-> tag, attrs |-> attrs, events |-> events]

Attr(k, v) == [key |-> k, val |-> v]

MetaEvent(k, v) == [kind |-> "meta", key |-> <<k>>, value |-> <<v>>]

EndEvent == [kind |-> "end", key |-> <<>>, value |-> <<>>]

ErrorEvent == [kind |-> "error", key |-> <<>>, value |-> <<>>]

RECURSIVE SplitFrom(_, _)
\* str::split: cur is the chunk being gathered
SplitFrom(xml, cur) ==
    IF xml = <<>> THEN <<cur>>
    ELSE IF Head(xml).piece = "marker" THEN <<cur>> \o SplitFrom(Tail(xml), <<>>)
    ELSE SplitFrom(Tail(xml), Append(cur, Head(xml)))

\* a plausible slip: the chunks that hold nothing are dropped
SplitSkipEmpty(xml) ==
    <<Head(SplitFrom(xml, <<>>))>>
        \o SelectSeq(Tail(SplitFrom(xml, <<>>)), LAMBDA c : c # <<>>)

\* xml.split("<Record ").collect()
Split(xml) == SplitFrom(xml, <<>>)

\* format!("<Record {}", chunk)
FullChunk(chunk) == <<Marker>> \o chunk

\* what Reader::from_str(&format!("<Record {}", chunk)) produces: the unit of
\* the chunk's body, or a tag that never closes when nothing follows the marker
ChunkUnit(chunk) ==
    IF chunk # <<>> /\ Head(chunk).piece = "body" THEN Head(chunk)
    ELSE Body("unterminated", <<>>, <<>>)

\* chunks.par_iter().skip(1): the unit of the i-th chunk after the first
UnitAt(xml, i) == ChunkUnit(Split(xml)[i + 1])

NumUnits(xml) == Len(Split(xml)) - 1

RECURSIVE CollectUnordered(_, _)
\* a plausible slip: an unordered merge, the records in the order the workers
\* finished them
CollectUnordered(res, order) ==
    IF order = <<>> THEN <<>>
    ELSE res[Head(order)][1].rec \o CollectUnordered(res, Tail(order))

RECURSIVE CollectIndexed(_, _)
CollectIndexed(res, i) ==
    IF i > Len(res) THEN <<>>
    ELSE res[i][1].rec \o CollectIndexed(res, i + 1)

\* .filter_map(|r| r).collect() of an indexed parallel iterator: the Some
\* results by chunk index, whatever the order the workers finished in
Collect(res, order) == CollectIndexed(res, 1)

(***************************************************************************)
(* SpecPar                                                                 *)
(***************************************************************************)
\* the chunks the documents are made of
ChunkRecentA ==
    << Body("ok", <<Attr("type", TypeA), Attr("startDate", ExampleRecent),
                    Attr("value", Str("72"))>>, <<EndEvent>>) >>

ChunkRecentB ==
    << Body("ok", <<Attr("type", TypeB), Attr("startDate", ExampleRecent)>>, <<>>) >>

ChunkStaleC ==
    << Body("ok", <<Attr("type", TypeC), Attr("startDate", ExampleStale)>>, <<>>) >>

ChunkStaleDateFirst ==
    << Body("ok", <<Attr("startDate", ExampleStale), Attr("type", TypeA),
                    Attr("unit", Str("kg"))>>,
            <<MetaEvent("HKActivityType", <<"1", "3">>), ErrorEvent>>) >>

ChunkNoDate ==
    << Body("ok", <<Attr("type", TypeC), Attr("unit", Str("kg"))>>, <<>>) >>

ChunkSplitChar ==
    << Body("ok", <<Attr("type", TypeA), Attr("startDate", DateSplitChar)>>, <<>>) >>

ChunkEmpty == <<>>

ParChunks ==
    { ChunkRecentA, ChunkRecentB, ChunkStaleC, ChunkStaleDateFirst, ChunkNoDate,
      ChunkSplitChar, ChunkEmpty }

RECURSIVE Join(_)
\* the text whose split gives these chunks after the first
Join(chunks) ==
    IF chunks = <<>> THEN <<>>
    ELSE <<Marker>> \o Head(chunks) \o Join(Tail(chunks))

ParDocs ==
    {pro \o Join(cs) :
        pro \in { <<>>, <<Text>> },
        cs \in UNION {[1..n -> ParChunks] : n \in 0..MaxUnits}}

ParFilters == { {}, {TypeA, TypeC} }

\* a day on which the cutoff has passed the month of ExampleRecent
LaterDay == DaysFromCivil(2025, 3, 1)

ParClock == {ExampleDay, LaterDay}

Pending(res) == {i \in 1..Len(res) : res[i] = <<>>}

InitPar ==
    /\ clock = ExampleDay
    /\ p_xml \in ParDocs
    /\ p_types \in ParFilters
    /\ p_res = [i \in 1..NumUnits(p_xml) |-> <<>>]
    /\ p_at = [i \in 1..NumUnits(p_xml) |-> 0]
    /\ p_order = <<>>
    /\ p_out = <<>>
    /\ p_pc = "map"
    /\ DateIdle /\ UnitIdle /\ RunIdle

\* a worker runs the closure on chunk i
MapChunk ==
    /\ p_pc = "map"
    /\ \E i \in Pending(p_res) :
          /\ p_res' = [p_res EXCEPT ![i] = <<ParseUnit(UnitAt(p_xml, i), p_types, clock)>>]
          /\ p_at' = [p_at EXCEPT ![i] = clock]
          /\ p_order' = Append(p_order, i)
    /\ UNCHANGED <<clock, p_xml, p_types, p_out, p_pc, dateVars, unitVars, runVars>>

\* every chunk is mapped and none panicked: collect() returns the Vec
CollectAll ==
    /\ p_pc = "map"
    /\ Pending(p_res) = {}
    /\ \A i \in 1..Len(p_res) : ~p_res[i][1].panic
    /\ p_out' = <<Collect(p_res, p_order)>>
    /\ p_pc' = "done"
    /\ UNCHANGED <<clock, p_xml, p_types, p_res, p_at, p_order, dateVars, unitVars, runVars>>

\* a worker panicked: rayon resumes the panic in the caller, no Vec is returned
Unwind ==
    /\ p_pc = "map"
    /\ \E i \in 1..Len(p_res) : p_res[i] # <<>> /\ p_res[i][1].panic
    /\ p_pc' = "panicked"
    /\ UNCHANGED <<clock, p_xml, p_types, p_res, p_at, p_order, p_out, dateVars, unitVars, runVars>>

\* time passes while the workers run
TickPar ==
    /\ p_pc = "map"
    /\ \E d \in ParClock : d > clock /\ clock' = d
    /\ UNCHANGED <<dateVars, unitVars, parVars, runVars>>

NextPar ==
    \/ MapChunk
    \/ CollectAll
    \/ Unwind
    \/ TickPar

SpecPar == InitPar /\ [][NextPar]_vars

\* the value of attribute key in the Record tag of unit u, <<>> when it has none
AttrOf(u, key) ==
    IF \E i \in 1..Len(u.attrs) : u.attrs[i].key = key
    THEN << u.attrs[CHOOSE i \in 1..Len(u.attrs) : u.attrs[i].key = key].val >>
    ELSE <<>>

\* the type filter admits unit u
TypeAdmitted(u, allowed) ==
    allowed = {} \/ (AttrOf(u, "type") # <<>> /\ AttrOf(u, "type")[1] \in allowed)

\* unit u has a startDate that passes the recency filter on day today
DateAdmitted(u, today) ==
    AttrOf(u, "startDate") # <<>>
    /\ is_in_last_12_months(AttrOf(u, "startDate")[1], today) = "true"

\* C1: parse_records emits a record for a unit if and only if (the filter set
\* is empty or contains the unit's type) and the unit's startDate passes the
\* recency filter; a unit failing either check produces no record.
C1_RecordIffTypeAndDate ==
    \A i \in 1..Len(p_res) :
        (p_res[i] # <<>> /\ ~p_res[i][1].panic /\ UnitAt(p_xml, i).tag = "ok")
        => ((p_res[i][1].rec # <<>>)
            <=> (TypeAdmitted(UnitAt(p_xml, i), p_types)
                 /\ DateAdmitted(UnitAt(p_xml, i), p_at[i])))

\* the units that produced a record
Survivors == {i \in 1..Len(p_res) : p_res[i] # <<>> /\ p_res[i][1].rec # <<>>}

\* the k-th survivor in document order
SurvivorAt(k) == CHOOSE i \in Survivors : Cardinality({j \in Survivors : j < i}) = k - 1

\* C2: for every input and every schedule of the workers, the output holds at
\* most as many records as there are units, and the surviving records appear
\* in the order of their units in the document.
C2_OutputInDocumentOrder ==
    p_pc = "done"
    => /\ Len(p_out[1]) <= NumUnits(p_xml)
       /\ Len(p_out[1]) = Cardinality(Survivors)
       /\ \A k \in 1..Len(p_out[1]) : p_out[1][k] = p_res[SurvivorAt(k)][1].rec[1]

\* two units with different records were finished in the reverse of their
\* document order, and both records are in the output
C2_Witness ==
    /\ p_pc = "done"
    /\ Len(p_out[1]) = 2
    /\ p_out[1][1] # p_out[1][2]
    /\ \E a, b \in 1..Len(p_order) :
          a < b /\ p_order[a] > p_order[b] /\ {p_order[a], p_order[b]} \subseteq Survivors

RECURSIVE Concat(_)
\* the texts of a sequence one after the other
Concat(texts) ==
    IF texts = <<>> THEN <<>> ELSE Head(texts) \o Concat(Tail(texts))

\* where the marker occurs in a text
MarkerPositions(xml) == {i \in 1..Len(xml) : xml[i] = Marker}

\* the text from its first marker to its end
FromFirstMarker(xml) ==
    IF MarkerPositions(xml) = {} THEN <<>>
    ELSE SubSeq(xml, CHOOSE i \in MarkerPositions(xml) :
                        \A j \in MarkerPositions(xml) : i <= j, Len(xml))

\* the units of a text: the chunks after the first, the marker put back
FullChunks(xml) == [i \in 1..NumUnits(xml) |-> FullChunk(Split(xml)[i + 1])]

\* C16: segmentation loses and invents nothing: there are as many units as
\* occurrences of the marker, each unit starts with the marker, the text
\* before the first marker is in no unit, the units in order make up the text
\* from the first marker to the end, and a text with no marker gives no unit
\* and an empty output.
C16_SegmentationLossless ==
    /\ NumUnits(p_xml) = Cardinality(MarkerPositions(p_xml))
    /\ Len(p_res) = NumUnits(p_xml)
    /\ \A i \in 1..NumUnits(p_xml) :
          /\ Head(FullChunks(p_xml)[i]) = Marker
          /\ MarkerPositions(Tail(FullChunks(p_xml)[i])) = {}
    /\ Concat(FullChunks(p_xml)) = FromFirstMarker(p_xml)
    /\ MarkerPositions(Split(p_xml)[1]) = {}
    /\ Split(p_xml)[1] \o Concat(FullChunks(p_xml)) = p_xml
    /\ MarkerPositions(p_xml) = {}
       => /\ NumUnits(p_xml) = 0
          /\ p_pc = "done" => p_out = << <<>> >>

\* a text with a prologue and two markers, the second with nothing after it,
\* was parsed to the end
C16_Witness ==
    /\ p_pc = "done"
    /\ Len(p_xml) > 2
    /\ p_xml[1] = Text /\ p_xml[2] = Marker /\ p_xml[Len(p_xml)] = Marker
    /\ NumUnits(p_xml) = 2

(***************************************************************************)
(* read_export_xml and the content cache                                   *)
(***************************************************************************)
\* blake3::hash(&data).to_hex().to_string(): a digest of the file's bytes,
\* taken to be free of collisions
Blake3Hex(bytes) == <<"blake3", bytes>>

\* get_file_hash when fs::read succeeds
get_file_hash(zip) == Blake3Hex(zip.bytes)

\* a plausible slip: the cache is never consulted
try_load_cache_never(file, readable) == <<>>

\* try_load_cache: file is <<>> when cache_path.exists() is false, else
\* <<text>>; readable tells whether fs::read_to_string succeeds
try_load_cache(file, readable) ==
    IF file # <<>>
    THEN IF readable THEN file ELSE <<>>
    ELSE <<>>

Hole == [piece |-> "hole", tag |-> "", attrs |-> <<>>, events |-> <<>>]

\* a write of one piece at offset pos of a file that holds text: a file
\* shorter than pos is filled up with a hole
WriteAt(text, pos, piece) ==
    LET n == IF Len(text) > pos + 1 THEN Len(text) ELSE pos + 1
    IN  [i \in 1..n |-> IF i = pos + 1 THEN piece
                        ELSE IF i <= Len(text) THEN text[i] ELSE Hole]

\* what parse_records makes of the workers' results: a panic, or the Vec
Gather(res) ==
    IF \E i \in 1..Len(res) : res[i][1].panic
    THEN [panic |-> TRUE, records |-> <<>>]
    ELSE [panic |-> FALSE, records |-> Collect(res, [i \in 1..Len(res) |-> i])]

\* parse_records when every unit is scanned on day today
parse_records(xml, allowed, today) ==
    Gather([i \in 1..NumUnits(xml) |-> <<ParseUnit(UnitAt(xml, i), allowed, today)>>])

\* the allowed_types of main; TypeA and TypeC stand for identifiers of its
\* list, TypeB for one that is not in it
allowed_types == {TypeA, TypeC}

(***************************************************************************)
(* Spec: runs of main against one archive and one cache directory.         *)
(***************************************************************************)
Runs == 1..NumRuns

\* a unit of the month that is the cutoff month on ExampleDay
ChunkEdgeA ==
    << Body("ok", <<Attr("type", TypeA),
                    Attr("startDate", FmtYearMonth(2023, 6) \o <<"-", "2", "0">>),
                    Attr("value", Str("72"))>>, <<EndEvent>>) >>

ZipOne == [bytes |-> "one", entry |-> << Join(<<ChunkEdgeA>>) >>]

ZipOdd == [bytes |-> "odd", entry |-> << Join(<<ChunkSplitChar>>) >>]

\* an archive without apple_health_export/export.xml
ZipBare == [bytes |-> "bare", entry |-> <<>>]

Archives == {ZipOne, ZipOdd, ZipBare}

Hashes == {Blake3Hex(z.bytes) : z \in Archives}

\* a day of the same cutoff month as ExampleDay
MidDay == DaysFromCivil(2024, 6, 15)

RunClock == {ExampleDay, MidDay, LaterDay}

IdleRun ==
    [pc      |-> "idle",   \* where the run stands
     hash    |-> <<>>,     \* the digest get_file_hash returned
     found   |-> <<>>,     \* the cache file as try_load_cache met it
     read    |-> "none",   \* how its read_to_string went: "ok" or "err"
     hit     |-> FALSE,    \* read_export_xml returned the cached text
     opened  |-> FALSE,    \* the archive was opened
     wpos    |-> 0,        \* pieces of the entry written by save_cache
     wrote   |-> FALSE,    \* save_cache created or truncated the entry
     xml     |-> <<>>,     \* the text read_export_xml holds or returned
     records |-> <<>>,     \* the Vec parse_records returned
     at      |-> 0,        \* the day parse_records ran on
     after   |-> {},       \* the runs that had completed when this one began
     out     |-> {},       \* the output files this run has written
     error   |-> ""]       \* the step that failed

Init ==
    /\ clock = ExampleDay
    /\ archive \in Archives
    /\ cache_dir = FALSE
    /\ cache = [h \in Hashes |-> <<>>]
    /\ run = [r \in Runs |-> IdleRun]
    /\ files = [json |-> <<>>, csv |-> <<>>]
    /\ DateIdle /\ UnitIdle /\ ParIdle

Others == <<dateVars, unitVars, parVars>>

\* the run after parse_records returned out, or panicked, on day today
Parsed(rn, out, today) ==
    IF out.panic THEN [IdleRun EXCEPT !.pc = "panicked"]
    ELSE [rn EXCEPT !.at = today, !.records = <<out.records>>, !.pc = "json"]

\* main is started; a later run is not started before an earlier one
StartRun(r) ==
    /\ run[r].pc = "idle"
    /\ \A q \in Runs : q < r => run[q].pc # "idle"
    /\ run' = [run EXCEPT ![r].pc = "hash",
                          ![r].after = {q \in Runs : run[q].pc = "done"}]
    /\ UNCHANGED <<clock, archive, cache_dir, cache, files, Others>>

\* read_export_xml: get_file_hash(zip_path)? succeeds
GetFileHash(r) ==
    /\ run[r].pc = "hash"
    /\ run' = [run EXCEPT ![r].pc = "lookup",
                          ![r].hash = <<get_file_hash(archive)>>]
    /\ UNCHANGED <<clock, archive, cache_dir, cache, files, Others>>

\* read_export_xml: try_load_cache, and the branch on its result
TryLoadCache(r) ==
    /\ run[r].pc = "lookup"
    /\ \E readable \in BOOLEAN :
          LET file   == cache[run[r].hash[1]]
              cached == try_load_cache(file, readable)
          IN  run' = [run EXCEPT
                        ![r].found = file,
                        ![r].read = IF file = <<>> THEN "none"
                                    ELSE IF readable THEN "ok" ELSE "err",
                        ![r].hit = cached # <<>>,
                        ![r].xml = cached,
                        ![r].pc = IF cached # <<>> THEN "parse" ELSE "load"]
    /\ UNCHANGED <<clock, archive, cache_dir, cache, files, Others>>

\* read_export_xml: File::open, ZipArchive::new, by_name and read_to_string
\* succeed, or by_name finds no export.xml
LoadArchive(r) ==
    /\ run[r].pc = "load"
    /\ run' = IF archive.entry = <<>>
              THEN [run EXCEPT ![r] = [IdleRun EXCEPT !.pc = "failed", !.error = "entry"]]
              ELSE [run EXCEPT ![r].pc = "mkdir", ![r].opened = TRUE,
                               ![r].xml = archive.entry]
    /\ UNCHANGED <<clock, archive, cache_dir, cache, files, Others>>

\* save_cache: fs::create_dir_all succeeds
CreateDirAll(r) ==
    /\ run[r].pc = "mkdir"
    /\ cache_dir' = TRUE
    /\ run' = [run EXCEPT ![r].pc = "create"]
    /\ UNCHANGED <<clock, archive, cache, files, Others>>

\* save_cache: fs::write creates the file, or truncates the one there
CreateCacheFile(r) ==
    /\ run[r].pc = "create"
    /\ cache' = [cache EXCEPT ![run[r].hash[1]] = << <<>> >>]
    /\ run' = [run EXCEPT ![r].wrote = TRUE,
                          ![r].pc = IF run[r].xml[1] = <<>> THEN "parse" ELSE "write"]
    /\ UNCHANGED <<clock, archive, cache_dir, files, Others>>

\* save_cache: fs::write writes the next piece of the text at its own offset
WritePiece(r) ==
    /\ run[r].pc = "write"
    /\ LET h == run[r].hash[1]
           k == run[r].wpos
       IN  /\ cache' = [cache EXCEPT
                          ![h] = << WriteAt(cache[h][1], k, run[r].xml[1][k + 1]) >>]
           /\ run' = [run EXCEPT
                          ![r].wpos = k + 1,
                          ![r].pc = IF k + 1 = Len(run[r].xml[1]) THEN "parse"
                                    ELSE "write"]
    /\ UNCHANGED <<clock, archive, cache_dir, files, Others>>

\* main: parse_records(&xml, &allowed_types); a panic of a worker ends the run
ParseRecords(r) ==
    /\ run[r].pc = "parse"
    /\ run' = [run EXCEPT
                  ![r] = Parsed(@, parse_records(@.xml[1], allowed_types, clock), clock)]
    /\ UNCHANGED <<clock, archive, cache_dir, cache, files, Others>>

\* main: serde_json::to_string_pretty and fs::write("./output.json") succeed
WriteJson(r) ==
    /\ run[r].pc = "json"
    /\ files' = [files EXCEPT !.json = run[r].records]
    /\ run' = [run EXCEPT ![r].pc = "csv", ![r].out = @ \cup {"json"}]
    /\ UNCHANGED <<clock, archive, cache_dir, cache, Others>>

\* main: write_csv succeeds and main returns Ok
WriteCsv(r) ==
    /\ run[r].pc = "csv"
    /\ files' = [files EXCEPT !.csv = run[r].records]
    /\ run' = [run EXCEPT ![r].pc = "done", ![r].out = @ \cup {"csv"}]
    /\ UNCHANGED <<clock, archive, cache_dir, cache, Others>>

\* a plausible slip: the Err of save_cache is dropped (`let _ = save_cache(..)`)
\* and the run goes on to parse the text it extracted
IoFailureIgnored(r) ==
    /\ run[r].pc \in {"hash", "load", "mkdir", "create", "write", "json", "csv"}
    /\ run' = IF run[r].pc \in {"mkdir", "create", "write"}
              THEN [run EXCEPT ![r].pc = "parse", ![r].error = run[r].pc]
              ELSE [run EXCEPT ![r] = [IdleRun EXCEPT !.pc = "failed",
                                                      !.error = run[r].pc,
                                                      !.out = run[r].out]]
    /\ UNCHANGED <<clock, archive, cache_dir, cache, files, Others>>

\* a step that does I/O returns Err, which `?` hands up to main, or the
\* process is killed during the step: the run ends where it stands
IoFailure(r) ==
    /\ run[r].pc \in {"hash", "load", "mkdir", "create", "write", "json", "csv"}
    /\ run' = [run EXCEPT ![r] = [IdleRun EXCEPT !.pc = "failed",
                                                 !.error = run[r].pc,
                                                 !.out = run[r].out]]
    /\ UNCHANGED <<clock, archive, cache_dir, cache, files, Others>>

\* time passes; the clock is read by parse_records only, so the passing of
\* time is observed when a run is about to parse
Tick ==
    /\ \E r \in Runs : run[r].pc = "parse"
    /\ \E d \in RunClock : d > clock /\ clock' = d
    /\ UNCHANGED <<archive, cache_dir, cache, run, files, Others>>

Next ==
    \/ \E r \in Runs : StartRun(r)
    \/ \E r \in Runs : GetFileHash(r)
    \/ \E r \in Runs : TryLoadCache(r)
    \/ \E r \in Runs : LoadArchive(r)
    \/ \E r \in Runs : CreateDirAll(r)
    \/ \E r \in Runs : CreateCacheFile(r)
    \/ \E r \in Runs : WritePiece(r)
    \/ \E r \in Runs : ParseRecords(r)
    \/ \E r \in Runs : WriteJson(r)
    \/ \E r \in Runs : WriteCsv(r)
    \/ \E r \in Runs : IoFailure(r)
    \/ Tick

Spec == Init /\ [][Next]_vars

\* the text extracted from the archive whose digest is h
TextOf(h) == (CHOOSE z \in Archives : Blake3Hex(z.bytes) = h).entry

\* C3: in every reachable state a cache file present at <cache_dir>/<hash>.xml
\* holds exactly the complete document text of the archive with that hash; a
\* partially written entry is never visible to try_load_cache.
C3_CacheEntryComplete ==
    /\ \A h \in Hashes : cache[h] # <<>> => cache[h] = TextOf(h)
    /\ \A r \in Runs : run[r].found # <<>> => run[r].found = TextOf(run[r].hash[1])

\* C4: whenever a cache entry file exists for the digest of the archive,
\* read_export_xml returns that entry's stored text and neither opens the
\* archive nor rewrites the cache entry.
C4_EntryFoundSkipsArchive ==
    \A r \in Runs :
        run[r].found # <<>>
        => /\ run[r].xml = run[r].found
           /\ ~run[r].opened
           /\ ~run[r].wrote

\* C4 as amended: whenever a cache entry file exists for the digest and
\* try_load_cache reads it, read_export_xml returns the text read and neither
\* opens the archive nor rewrites the entry; when the file exists and the read
\* fails, read_export_xml goes on as on a miss and opens the archive.
C4_ReadableEntrySkipsArchive ==
    \A r \in Runs :
        /\ (run[r].found # <<>> /\ run[r].read = "ok")
           => /\ run[r].hit
              /\ run[r].xml = run[r].found
              /\ ~run[r].opened
              /\ ~run[r].wrote
              /\ run[r].pc \in {"parse", "json", "csv", "done"}
        /\ (run[r].found # <<>> /\ run[r].read = "err")
           => /\ ~run[r].hit
              /\ run[r].pc = "load" \/ run[r].opened

\* a run that found the entry and read it has completed
C4_Witness ==
    \E r \in Runs :
        run[r].found # <<>> /\ run[r].read = "ok" /\ run[r].pc = "done"

\* the pipeline was run twice and no more: r1 missed the cache and completed,
\* then r2 began, hit the cache and completed
RanTwice(r1, r2) ==
    /\ r1 # r2
    /\ run[r1].pc = "done" /\ ~run[r1].hit
    /\ run[r2].pc = "done" /\ run[r2].hit
    /\ r1 \in run[r2].after
    /\ \A q \in Runs \ {r1, r2} : run[q].pc = "idle"

\* C5: running the pipeline twice on byte-identical archives (first a miss,
\* then a hit, at any two points in time) yields the same cache key and the
\* same output record sequence both times.
C5_SameKeySameRecords ==
    \A r1, r2 \in Runs :
        RanTwice(r1, r2)
        => /\ run[r1].hash = run[r2].hash
           /\ run[r1].records = run[r2].records

\* the year and month of the day 365 days before day d
YearMonthBefore(d) == YearMonthOf(CivilFromDays(d - 365))

\* C5 as amended: the two runs yield the same cache key, and the same output
\* record sequence when the day 365 days before each run's parse falls in the
\* same year and month.
C5_SameKeySameRecordsAtSameCutoff ==
    \A r1, r2 \in Runs :
        RanTwice(r1, r2)
        => /\ run[r1].hash = run[r2].hash
           /\ YearMonthBefore(run[r1].at) = YearMonthBefore(run[r2].at)
              => run[r1].records = run[r2].records

\* two such runs parsed on different days of the same cutoff month and kept a record
C5_Witness ==
    \E r1, r2 \in Runs :
        /\ RanTwice(r1, r2)
        /\ run[r1].at # run[r2].at
        /\ YearMonthBefore(run[r1].at) = YearMonthBefore(run[r2].at)
        /\ run[r1].records # << <<>> >>

\* the steps of read_export_xml that can fail: hashing, opening the archive
\* and extracting, finding the entry, creating the directory, writing the entry
SetupSteps == {"hash", "load", "entry", "mkdir", "create", "write"}

\* C12: if hashing the archive, opening it, locating export.xml, extracting
\* it, creating the cache directory or writing the cache entry fails, the run
\* ends with an error after that one attempt (a failed run takes no further
\* step) and has written neither output.json nor output.csv.
C12_SetupFailureIsFatal ==
    /\ [](\A r \in Runs :
            run[r].error \in SetupSteps
            => run[r].pc = "failed" /\ run[r].out = {})
    /\ [][\A r \in Runs : run[r].pc = "failed" => run'[r] = run[r]]_vars

\* one run failed while writing the cache entry and another for want of
\* export.xml or while extracting
C12_Witness ==
    \E r1, r2 \in Runs :
        /\ run[r1].pc = "failed" /\ run[r1].error = "write"
        /\ run[r2].pc = "failed" /\ run[r2].error \in {"entry", "load"}

\* C17: a run either completes, having written both the JSON and the CSV
\* output, or fails having delivered no result file: no failure at any step
\* leaves one output written and the other missing.
C17_BothOutputsOrNone ==
    \A r \in Runs :
        /\ run[r].pc = "done" => run[r].out = {"json", "csv"}
        /\ run[r].pc \in {"failed", "panicked"} => run[r].out = {}

====
